---- MODULE Spec2Model ----
(***************************************************************************)
(* Model of the gateway's credential pool manager (token-manager) and of   *)
(* the two request handlers that acquire a credential from it              *)
(* (POST /api/v1/chat/completions and POST /api/v1/messages).               *)
(*                                                                         *)
(* The module state of token-manager (accounts, currentIndex,              *)
(* lastRefreshTime) is shared by the handlers.  A handler runs without     *)
(* interruption between two awaits, so every action below is one such      *)
(* synchronous stretch of code.                                            *)
(***************************************************************************)
EXTENDS Integers, Sequences, FiniteSets, TLC

----------------------------------------------------------------------------
(* Bounds of the model *)

\* longest account list the configuration blob holds in Spec
MaxBlobLen == 2
\* longest account list the configuration blob holds in SpecLoad
MaxSortLen == 3
\* the rotation cursor stops being advanced at this value
MaxCursor == 3
\* number of clock steps
MaxTicks == 2
\* most events an upstream response body holds
MaxEvents == 3
\* the parses of MODEL_MAPPING_JSON stop being counted at this value
MaxParses == 3
\* most messages a request to translate holds
MaxMessages == 2
\* most blocks the content of a message holds
MaxParts == 2

(* Program constants *)

\* getToken: "now >= account.token.expiry_timestamp - 300" (seconds)
RefreshWindow == 300
\* getToken: "Date.now() - lastRefreshTime > 5 * 60 * 1000" (milliseconds)
ReloadIntervalMs == 5 * 60 * 1000

\* The clock (seconds) starts after the epoch by more than the reload
\* interval, as Date.now() does, and advances in steps of one refresh window.
StartClock == 2 * RefreshWindow
ClockStep == RefreshWindow
EndClock == StartClock + MaxTicks * ClockStep

\* the two request handlers; each handles one request at a time
Handlers == {"chat", "messages"}

----------------------------------------------------------------------------
(* Accounts and configuration blobs *)

Tiers == {"ULTRA", "PRO", "FREE", "NONE"}

\* expiry_timestamp values a configured token carries: one already inside
\* the refresh window at StartClock, one that enters it one step later
ExpirySoon == StartClock
ExpiryLate == StartClock + 2 * RefreshWindow

\* access tokens and lifetimes the identity provider answers with
NewTokens == {"ya29.new1", "ya29.new2"}
Lifetimes == {2 * RefreshWindow}

\* the access_token and expires_in every configured account starts with
CfgToken == "ya29.cfg"
CfgExpiresIn == 3600

\* An element of the parsed list: an Account record, or (isnull) the JSON
\* value null.  src is the element's position in the configuration list and
\* identifies the object within one parse.
Elem(src, isnull, disabled, proxy_disabled, tier, expiry) ==
    [src |-> src, isnull |-> isnull, disabled |-> disabled,
     proxy_disabled |-> proxy_disabled, subscription_tier |-> tier,
     access_token |-> CfgToken, expires_in |-> CfgExpiresIn,
     expiry_timestamp |-> expiry]

NoAccount == Elem(0, TRUE, FALSE, FALSE, "NONE", 0)

\* what one element of the configuration list says
CfgElems(tiers, expiries) ==
    [isnull : {FALSE}, flag : {"none", "disabled", "proxy_disabled"},
     tier : tiers, expiry : expiries]
    \cup {[isnull |-> TRUE, flag |-> "none", tier |-> "NONE", expiry |-> 0]}

SeqsUpTo(S, n) == UNION {[1..k -> S] : k \in 0..n}

\* ACCOUNTS_JSON: text that is no JSON ("malformed"), JSON that is no list
\* (null, or an object/number: "object"), or a list of elements
Blobs(tiers, expiries, n) ==
    {[kind |-> k, items |-> <<>>] : k \in {"malformed", "null", "object"}}
    \cup {[kind |-> "array", items |-> s] : s \in SeqsUpTo(CfgElems(tiers, expiries), n)}

\* JSON.parse of a list blob: fresh objects, in list order
ParseItems(items) ==
    [i \in 1..Len(items) |->
        Elem(i, items[i].isnull, items[i].flag = "disabled",
             items[i].flag = "proxy_disabled", items[i].tier, items[i].expiry)]

----------------------------------------------------------------------------
(* loadAccounts *)

tierPriority(tier) ==
    CASE tier = "ULTRA" -> 0
      [] tier = "PRO" -> 1
      [] tier = "FREE" -> 2
      [] OTHER -> 3

\* the comparator handed to Array.prototype.sort
compareTier(a, b) == tierPriority(a.subscription_tier) - tierPriority(b.subscription_tier)

\* a sort that is not stable: an element is placed before its equals
RECURSIVE InsertSortedUnstable(_, _)
InsertSortedUnstable(s, x) ==
    IF s = <<>> THEN <<x>>
    ELSE IF compareTier(s[Len(s)], x) < 0 THEN Append(s, x)
    ELSE Append(InsertSortedUnstable(SubSeq(s, 1, Len(s) - 1), x), s[Len(s)])

\* Array.prototype.sort is stable: an element is placed after every element
\* already placed that does not compare greater than it
RECURSIVE InsertSorted(_, _)
InsertSorted(s, x) ==
    IF s = <<>> THEN <<x>>
    ELSE IF compareTier(s[Len(s)], x) <= 0 THEN Append(s, x)
    ELSE Append(InsertSorted(SubSeq(s, 1, Len(s) - 1), x), s[Len(s)])

RECURSIVE SortFrom(_, _)
SortFrom(done, rest) ==
    IF rest = <<>> THEN done
    ELSE SortFrom(InsertSorted(done, Head(rest)), Tail(rest))

SortByTier(s) == SortFrom(<<>>, s)

\* the filter callback: !acc.disabled && !acc.proxy_disabled
KeepAccount(acc) == ~acc.disabled /\ ~acc.proxy_disabled

FilterEnabled(s) == SelectSeq(s, KeepAccount)

\* the callback reads acc.disabled: it throws a TypeError on a null element
FilterThrows(s) == \E i \in 1..Len(s) : s[i].isnull

EmptyPool == [kind |-> "array", items |-> <<>>]

\* The value of the module variable `accounts` after loadAccounts() ran on
\* blob.  `accounts` is assigned the parsed value before it is filtered, and
\* the catch block assigns nothing.
LoadedPool(old, blob) ==
    CASE blob.kind = "malformed" -> old
      [] blob.kind \in {"null", "object"} -> [kind |-> blob.kind, items |-> <<>>]
      [] OTHER ->
          LET parsed == ParseItems(blob.items)
          IN  IF FilterThrows(parsed)
              THEN [kind |-> "array", items |-> parsed]
              ELSE [kind |-> "array", items |-> SortByTier(FilterEnabled(parsed))]

\* whether loadAccounts() took its catch block: the blob did not parse into
\* a list of account records
LoadFailed(blob) ==
    \/ blob.kind # "array"
    \/ FilterThrows(ParseItems(blob.items))

\* whether loadAccounts() assigned `accounts` at all
LoadAssigns(blob) == blob.kind # "malformed"

----------------------------------------------------------------------------
(* State *)

VARIABLES
    accounts,         \* token-manager: let accounts (a JS value: kind, items)
    currentIndex,     \* token-manager: let currentIndex
    lastRefreshTime,  \* token-manager: let lastRefreshTime (milliseconds)
    clock,            \* wall clock in seconds; Date.now() is clock * 1000
    pc,               \* per handler: where its request stands
    req,              \* per handler: the request being handled
    acct,             \* per handler: getToken's `account` (the object selected)
    detached,         \* per handler: `accounts` was reassigned since the selection
    result,           \* per handler: what getToken() settled with
    response,         \* per handler: the HTTP response returned
    upstreamCalled,   \* per handler: the upstream fetch was issued
    attempts,         \* per handler: refreshToken calls made by the current getToken()
    selCount,         \* per handler: selections made by the current getToken()
    selIndex,         \* per handler: index of the last selection (-1: NaN)
    selLen,           \* per handler: accounts.length at the last selection (-1: undefined)
    selKind,          \* per handler: what the last selection yielded
    lastLoad,         \* how loadAccounts() ended in the latest run of getToken / getAccountCount
    rotation          \* the getToken() calls completed since the latest reload

VARIABLES
    customMappings,   \* model-mapping: let customMappings (a JS value)
    mappingEnv,       \* process.env.MODEL_MAPPING_JSON
    mapped,           \* the latest mapModel call: its argument and what it returned
    parses            \* how often loadCustomMappings ran JSON.parse so far

VARIABLES
    encoder,          \* which handler's stream re-encoder runs ("none": no stream)
    upstreamEvents,   \* the events the upstream body is made of
    upstreamText,     \* what the upstream body still holds for reader.read()
    upstreamEnd,      \* how the upstream body ends: "done", or "fail" (read rejects)
    buffer,           \* start(): let buffer
    messageStarted,   \* start() of the messages route: let messageStarted
    output,           \* the events enqueued on the output stream, in order
    controller,       \* state of the output stream: readable, closed, errored, cancelled
    loop,             \* start(): "reading" (awaiting reader.read()) or "returned"
    readAfterCancel   \* reader.read() was called after the caller cancelled

VARIABLES
    translator,       \* which request translator runs: "chat", "messages" ("none": none)
    request,          \* the request body it is given: messages and the system field
    translated        \* what it returned

poolVars == <<accounts, currentIndex, lastRefreshTime, clock>>
callVars == <<pc, req, acct, detached, result, response, upstreamCalled>>
selVars == <<attempts, selCount, selIndex, selLen, selKind>>
logVars == <<lastLoad, rotation>>
managerVars == <<poolVars, callVars, selVars, logVars>>
mapVars == <<customMappings, mappingEnv, mapped, parses>>
streamVars == <<encoder, upstreamEvents, upstreamText, upstreamEnd, buffer,
                messageStarted, output, controller, loop, readAfterCancel>>
translateVars == <<translator, request, translated>>
sideVars == <<mapVars, streamVars, translateVars>>
vars == <<managerVars, sideVars>>

\* getToken is awaiting refreshToken(account)
RefreshPcs == {"refresh_fetch", "refresh_text", "refresh_json", "refresh_null"}

NoResult == [kind |-> "none", account |-> NoAccount, token |-> ""]
NullResult == [kind |-> "null", account |-> NoAccount, token |-> ""]
ThrownResult == [kind |-> "throw", account |-> NoAccount, token |-> ""]
TokenResult(account, token) == [kind |-> "token", account |-> account, token |-> token]

NoResponse == [status |-> 0, type |-> ""]
NoRequest == [auth |-> FALSE, json |-> FALSE, model |-> FALSE, messages |-> "absent"]

\* a request: whether the API key is valid, whether the body is JSON, whether
\* the body holds a model, and its messages field (absent or no list, an
\* empty list, a non-empty list); at most one required field is missing
Requests ==
    {NoRequest, [NoRequest EXCEPT !.auth = TRUE]}
    \cup [auth : {TRUE}, json : {TRUE}, model : {TRUE},
          messages : {"absent", "empty", "list"}]
    \cup {[auth |-> TRUE, json |-> TRUE, model |-> FALSE, messages |-> "list"]}

\* No window of consecutive calls is open (start = -1), or the calls
\* completed since the reload that opened it: start is currentIndex when the
\* first of them was entered, served the src of the account each returned
\* (0: none), clean whether no refresh failed in them.
NoRotation == [start |-> -1, served |-> <<>>, clean |-> TRUE]

----------------------------------------------------------------------------
(* getToken, up to its first await or its return *)

DateNow == clock * 1000

\* accounts.length === 0 || Date.now() - lastRefreshTime > 5 * 60 * 1000
NeedsReload(pool, nowMs, last) ==
    \/ (pool.kind = "array" /\ Len(pool.items) = 0)
    \/ nowMs - last > ReloadIntervalMs

TokenExpiringStrict(account, now) == now > account.expiry_timestamp - RefreshWindow

\* now >= account.token.expiry_timestamp - 300
TokenExpiring(account, now) == now >= account.expiry_timestamp - RefreshWindow

SelectIndexNoWrap(cursor, len) == IF cursor < len THEN cursor ELSE len

\* accounts[currentIndex % accounts.length], as an index from 0
SelectIndex(cursor, len) == cursor % len

\* a cursor that is advanced only later, after the run
NextCursorDeferred(cursor) == cursor

\* currentIndex++, the statement after the selection
NextCursor(cursor) == cursor + 1

\* What one run of getToken()'s synchronous part does, from module state
\* (pool, cursor, last) at time now: the new module state, and how the run
\* ends (ret): "throw" (a TypeError), "null", "token" (the stored token is
\* returned) or "await" (refreshToken(account) was called).
GetTokenOutcome(pool, cursor, last, now, blob) ==
    IF pool.kind = "null"
    THEN \* accounts.length throws on null
         [accounts |-> pool, currentIndex |-> cursor, lastRefreshTime |-> last,
          reloaded |-> FALSE, assigned |-> FALSE, load |-> "none",
          ret |-> "throw", selected |-> FALSE,
          kind |-> "none", index |-> -1, len |-> -1, account |-> NoAccount]
    ELSE
    LET reload == NeedsReload(pool, now * 1000, last)
        loaded == IF reload THEN LoadedPool(pool, blob) ELSE pool
        base == [accounts |-> loaded, currentIndex |-> cursor,
                 lastRefreshTime |-> IF reload THEN now * 1000 ELSE last,
                 reloaded |-> reload, assigned |-> reload /\ LoadAssigns(blob),
                 load |-> IF ~reload THEN "none"
                          ELSE IF LoadFailed(blob) THEN "failed" ELSE "ok",
                 ret |-> "throw", selected |-> FALSE,
                 kind |-> "none", index |-> -1, len |-> -1, account |-> NoAccount]
    IN  CASE loaded.kind = "null" -> base
          [] loaded.kind = "object" ->
               \* length is undefined: accounts[NaN] is undefined, and
               \* account.token throws after currentIndex++
               [base EXCEPT !.currentIndex = NextCursor(cursor), !.selected = TRUE,
                            !.kind = "undefined"]
          [] Len(loaded.items) = 0 -> [base EXCEPT !.ret = "null"]
          [] OTHER ->
               LET len == Len(loaded.items)
                   index == SelectIndex(cursor, len)
                   sel == [base EXCEPT !.currentIndex = NextCursor(cursor), !.selected = TRUE,
                                       !.index = index, !.len = len]
               IN  IF index >= len
                   THEN [sel EXCEPT !.kind = "undefined"]
                   ELSE LET account == loaded.items[index + 1]
                        IN  IF account.isnull
                            THEN [sel EXCEPT !.kind = "null"]
                            ELSE [sel EXCEPT !.kind = "account", !.account = account,
                                             !.ret = IF TokenExpiring(account, now)
                                                     THEN "await" ELSE "token"]

\* the blobs worth telling apart when getToken() runs: one when it does not reload
BlobChoices(all) ==
    IF accounts.kind # "null" /\ NeedsReload(accounts, DateNow, lastRefreshTime)
    THEN all ELSE {[kind |-> "array", items |-> <<>>]}

\* refreshToken's first lines: without GOOGLE_CLIENT_ID / GOOGLE_CLIENT_SECRET
\* it returns null before any fetch
RefreshEntryPc(creds) == IF creds THEN "refresh_fetch" ELSE "refresh_null"

\* the window of consecutive calls after a run of getToken() that left pool:
\* a reload in a call's first run opens a new window, one in a later run
\* closes the window, and so does a pool that holds nothing to select
RotationAfterRun(top, cursor, reloaded, pool) ==
    IF pool.kind # "array" \/ Len(pool.items) = 0 THEN NoRotation
    ELSE IF top
    THEN IF reloaded \/ rotation.start = -1
         THEN [start |-> cursor, served |-> <<>>, clean |-> TRUE]
         ELSE rotation
    ELSE IF reloaded \/ rotation.start = -1
         THEN NoRotation
         ELSE [rotation EXCEPT !.clean = FALSE]

\* the window after a call completed with result res
RotationAfterReturn(rot, res) ==
    IF rot.start = -1 THEN rot
    ELSE [rot EXCEPT !.served =
            Append(@, IF res.kind = "token" THEN res.account.src ELSE 0)]

\* getToken() runs for handler h: as the handler's call (top), or as the
\* call getToken makes after a failed refresh
GetTokenRun(h, blob, top) ==
    LET o == GetTokenOutcome(accounts, currentIndex, lastRefreshTime, clock, blob)
        res == CASE o.ret = "throw" -> ThrownResult
                 [] o.ret = "null" -> NullResult
                 [] o.ret = "token" -> TokenResult(o.account, o.account.access_token)
                 [] OTHER -> NoResult
        rot == RotationAfterRun(top, currentIndex, o.reloaded, o.accounts)
    IN  /\ currentIndex < MaxCursor
        /\ accounts' = o.accounts
        /\ currentIndex' = o.currentIndex
        /\ lastRefreshTime' = o.lastRefreshTime
        /\ IF o.ret = "await"
           THEN \E creds \in BOOLEAN : pc' = [pc EXCEPT ![h] = RefreshEntryPc(creds)]
           ELSE pc' = [pc EXCEPT ![h] = "returned"]
        /\ acct' = [acct EXCEPT ![h] = o.account]
        /\ detached' = [g \in Handlers |->
                          IF g = h THEN FALSE
                          ELSE IF pc[g] \in RefreshPcs THEN detached[g] \/ o.assigned
                          ELSE FALSE]
        /\ result' = [result EXCEPT ![h] = res]
        /\ attempts' = [attempts EXCEPT ![h] =
                          (IF top THEN 0 ELSE @) + (IF o.ret = "await" THEN 1 ELSE 0)]
        /\ selCount' = [selCount EXCEPT ![h] =
                          (IF top THEN 0 ELSE @) + (IF o.selected THEN 1 ELSE 0)]
        /\ selIndex' = [selIndex EXCEPT ![h] = IF o.selected THEN o.index ELSE @]
        /\ selLen' = [selLen EXCEPT ![h] = IF o.selected THEN o.len ELSE @]
        /\ selKind' = [selKind EXCEPT ![h] = IF o.selected THEN o.kind ELSE @]
        /\ lastLoad' = o.load
        /\ rotation' = IF o.ret = "await" THEN rot ELSE RotationAfterReturn(rot, res)

----------------------------------------------------------------------------
(* The request handlers, up to their call of getToken *)

ErrorResponse(status, type) == [status |-> status, type |-> type]

\* chat completions POST: API key, JSON body, model, messages
ChatValidation(r) ==
    IF ~r.auth THEN ErrorResponse(401, "invalid_request_error")
    ELSE IF ~r.json THEN ErrorResponse(400, "invalid_request_error")
    ELSE IF ~r.model THEN ErrorResponse(400, "invalid_request_error")
    ELSE IF r.messages # "list" THEN ErrorResponse(400, "invalid_request_error")
    ELSE NoResponse

\* messages POST: API key, JSON body
MessagesValidation(r) ==
    IF ~r.auth THEN ErrorResponse(401, "invalid_request_error")
    ELSE IF ~r.json THEN ErrorResponse(400, "invalid_request_error")
    ELSE NoResponse

Validation(h, r) == IF h = "chat" THEN ChatValidation(r) ELSE MessagesValidation(r)

\* the responses to getToken() returning null
ChatNoTokenResponse == ErrorResponse(503, "server_error")
MessagesNoTokenResponse == ErrorResponse(529, "overloaded_error")

NoTokenResponseShared(h) == ChatNoTokenResponse

NoTokenResponse(h) == IF h = "chat" THEN ChatNoTokenResponse ELSE MessagesNoTokenResponse

\* an exception no handler code catches: the route answers 500
UncaughtResponse == ErrorResponse(500, "uncaught")

\* A request arrives at handler h and is handled up to the first await of
\* getToken(), or to the error response that precedes it.
Start(h, r, blob) ==
    /\ pc[h] = "idle"
    /\ req' = [req EXCEPT ![h] = r]
    /\ IF Validation(h, r) # NoResponse
       THEN /\ response' = [response EXCEPT ![h] = Validation(h, r)]
            /\ pc' = [pc EXCEPT ![h] = "responded"]
            /\ UNCHANGED <<accounts, currentIndex, lastRefreshTime, acct, detached,
                           result, selVars, logVars>>
       ELSE /\ GetTokenRun(h, blob, TRUE)
            /\ UNCHANGED response
    /\ UNCHANGED <<clock, upstreamCalled>>

\* a request that arrives while no other request is being handled
StartAlone(h, r, blob) ==
    /\ \A g \in Handlers : pc[g] = "idle"
    /\ Start(h, r, blob)
    /\ UNCHANGED sideVars

\* a request that arrives whatever the other handler is doing: the handlers
\* of one instance interleave at their awaits
StartConcurrent(h, r, blob) ==
    /\ Start(h, r, blob)
    /\ UNCHANGED sideVars

\* the blobs worth telling apart when request r arrives at handler h
StartBlobs(h, r, all) ==
    IF Validation(h, r) # NoResponse THEN {[kind |-> "array", items |-> <<>>]}
    ELSE BlobChoices(all)

----------------------------------------------------------------------------
(* refreshToken, after its call *)

\* a failure path that also wipes the stored token
RefreshReturnsNullClearing(h) ==
    /\ pc' = [pc EXCEPT ![h] = "refresh_null"]
    /\ acct' = [acct EXCEPT ![h].access_token = ""]
    /\ accounts' = IF detached[h] \/ accounts.kind # "array" THEN accounts
                   ELSE [accounts EXCEPT !.items =
                           [i \in 1..Len(accounts.items) |->
                              IF accounts.items[i].src = acct[h].src
                              THEN [accounts.items[i] EXCEPT !.access_token = ""]
                              ELSE accounts.items[i]]]
    /\ UNCHANGED <<currentIndex, lastRefreshTime, clock, req, detached, result,
                   response, upstreamCalled, selVars, logVars>>

\* refreshToken returns null: its three failure paths assign nothing
RefreshReturnsNull(h) ==
    /\ pc' = [pc EXCEPT ![h] = "refresh_null"]
    /\ UNCHANGED <<poolVars, req, acct, detached, result, response, upstreamCalled,
                   selVars, logVars>>

\* fetch() rejects: the catch block returns null
FetchThrows(h) ==
    /\ pc[h] = "refresh_fetch"
    /\ RefreshReturnsNull(h)
    /\ UNCHANGED sideVars

\* fetch() resolves with a response; its body is awaited next
FetchResponds(h, ok) ==
    /\ pc[h] = "refresh_fetch"
    /\ pc' = [pc EXCEPT ![h] = IF ok THEN "refresh_json" ELSE "refresh_text"]
    /\ UNCHANGED <<poolVars, req, acct, detached, result, response, upstreamCalled,
                   selVars, logVars, sideVars>>

\* !response.ok: the error text is read (or reading it throws) and null returned
TextSettles(h) ==
    /\ pc[h] = "refresh_text"
    /\ RefreshReturnsNull(h)
    /\ UNCHANGED sideVars

\* response.json() rejects: the catch block returns null
JsonThrows(h) ==
    /\ pc[h] = "refresh_json"
    /\ RefreshReturnsNull(h)
    /\ UNCHANGED sideVars

\* `if (refreshed)` fails and getToken() returns getToken()
Retry(h, blob) ==
    /\ pc[h] = "refresh_null"
    /\ GetTokenRun(h, blob, FALSE)
    /\ UNCHANGED <<clock, req, response, upstreamCalled, sideVars>>

\* an update that stores the lifetime as the expiry
RefreshedAccountNoNow(account, data, now) ==
    [account EXCEPT !.access_token = data.access_token,
                    !.expires_in = data.expires_in,
                    !.expiry_timestamp = data.expires_in]

\* the account after lines 129-131 ran at time now
RefreshedAccount(account, data, now) ==
    [account EXCEPT !.access_token = data.access_token,
                    !.expires_in = data.expires_in,
                    !.expiry_timestamp = now + data.expires_in]

\* an update that finds the account in the pool by its identifier
PoolAfterRefreshById(pool, account, isDetached, data, now) ==
    IF pool.kind # "array" THEN pool
    ELSE [pool EXCEPT !.items =
            [i \in 1..Len(pool.items) |->
                IF pool.items[i].src = account.src
                THEN [pool.items[i] EXCEPT !.access_token = data.access_token,
                                           !.expires_in = data.expires_in,
                                           !.expiry_timestamp = now + data.expires_in]
                ELSE pool.items[i]]]

\* the pool after the object selected as `account` was mutated: the object
\* is an element of `accounts` unless `accounts` was reassigned meanwhile
PoolAfterRefresh(pool, account, isDetached, data, now) ==
    IF isDetached \/ pool.kind # "array" THEN pool
    ELSE [pool EXCEPT !.items =
            [i \in 1..Len(pool.items) |->
                IF pool.items[i].src = account.src
                THEN RefreshedAccount(pool.items[i], data, now)
                ELSE pool.items[i]]]

\* response.json() resolves with data: the account is updated in place,
\* refreshToken returns data.access_token and getToken returns the account
\* with it
JsonResolves(h, data) ==
    /\ pc[h] = "refresh_json"
    /\ accounts' = PoolAfterRefresh(accounts, acct[h], detached[h], data, clock)
    /\ acct' = [acct EXCEPT ![h] = RefreshedAccount(acct[h], data, clock)]
    /\ result' = [result EXCEPT ![h] = TokenResult(acct'[h], data.access_token)]
    /\ pc' = [pc EXCEPT ![h] = "returned"]
    /\ detached' = [detached EXCEPT ![h] = FALSE]
    /\ rotation' = RotationAfterReturn(rotation, result'[h])
    /\ UNCHANGED <<currentIndex, lastRefreshTime, clock, req, response, upstreamCalled,
                   selVars, lastLoad, sideVars>>

----------------------------------------------------------------------------
(* The request handlers, after getToken *)

\* `await getToken()` settles: null gives the no-credential response, a
\* TypeError is caught by nothing, a token leads to the upstream call
Resume(h) ==
    /\ pc[h] = "returned"
    /\ CASE result[h].kind = "null" ->
              /\ response' = [response EXCEPT ![h] = NoTokenResponse(h)]
              /\ pc' = [pc EXCEPT ![h] = "responded"]
              /\ UNCHANGED upstreamCalled
         [] result[h].kind = "throw" ->
              /\ response' = [response EXCEPT ![h] = UncaughtResponse]
              /\ pc' = [pc EXCEPT ![h] = "responded"]
              /\ UNCHANGED upstreamCalled
         [] h = "messages" /\ req[h].messages = "absent" ->
              \* convertClaudeToGemini iterates request.messages and throws
              /\ response' = [response EXCEPT ![h] = UncaughtResponse]
              /\ pc' = [pc EXCEPT ![h] = "responded"]
              /\ UNCHANGED upstreamCalled
         [] OTHER ->
              /\ upstreamCalled' = [upstreamCalled EXCEPT ![h] = TRUE]
              /\ pc' = [pc EXCEPT ![h] = "upstream"]
              /\ UNCHANGED response
    /\ UNCHANGED <<poolVars, req, acct, detached, result, selVars, logVars, sideVars>>

\* the upstream call settles: the reply is translated (200) or the
\* upstream's error status is passed on
UpstreamStatuses == {200, 429}

\* the error type each handler gives an upstream rejection
UpstreamType(h, status) ==
    IF status = 200 THEN "ok"
    ELSE IF h = "chat" THEN "upstream_error" ELSE "api_error"

UpstreamSettles(h, status) ==
    /\ pc[h] = "upstream"
    /\ response' = [response EXCEPT ![h] = ErrorResponse(status, UpstreamType(h, status))]
    /\ pc' = [pc EXCEPT ![h] = "responded"]
    /\ UNCHANGED <<poolVars, req, acct, detached, result, upstreamCalled, selVars,
                   logVars, sideVars>>

\* the response is sent; the handler is ready for the next request
Finish(h) ==
    /\ pc[h] = "responded"
    /\ pc' = [pc EXCEPT ![h] = "idle"]
    /\ req' = [req EXCEPT ![h] = NoRequest]
    /\ acct' = [acct EXCEPT ![h] = NoAccount]
    /\ result' = [result EXCEPT ![h] = NoResult]
    /\ response' = [response EXCEPT ![h] = NoResponse]
    /\ upstreamCalled' = [upstreamCalled EXCEPT ![h] = FALSE]
    /\ attempts' = [attempts EXCEPT ![h] = 0]
    /\ selCount' = [selCount EXCEPT ![h] = 0]
    /\ selIndex' = [selIndex EXCEPT ![h] = -1]
    /\ selLen' = [selLen EXCEPT ![h] = -1]
    /\ selKind' = [selKind EXCEPT ![h] = "none"]
    /\ UNCHANGED <<poolVars, detached, logVars, sideVars>>

----------------------------------------------------------------------------
(* getAccountCount (GET /api/health) and the clock *)

\* if (accounts.length === 0) loadAccounts(); lastRefreshTime is not touched
GetAccountCount(blob) ==
    /\ accounts.kind = "array"
    /\ Len(accounts.items) = 0
    /\ accounts' = LoadedPool(accounts, blob)
    /\ lastLoad' = IF LoadFailed(blob) THEN "failed" ELSE "ok"
    /\ detached' = [g \in Handlers |->
                      pc[g] \in RefreshPcs /\ (detached[g] \/ LoadAssigns(blob))]
    /\ rotation' = NoRotation
    /\ UNCHANGED <<currentIndex, lastRefreshTime, clock, pc, req, acct, result,
                   response, upstreamCalled, selVars, sideVars>>

\* Time passes while every handler waits for a request or for the network;
\* the code between two awaits runs within one clock step.
WaitingPcs == {"idle", "refresh_fetch", "refresh_text", "refresh_json", "upstream"}

Tick ==
    /\ \A h \in Handlers : pc[h] \in WaitingPcs
    /\ clock + ClockStep <= EndClock
    /\ clock' = clock + ClockStep
    /\ UNCHANGED <<accounts, currentIndex, lastRefreshTime, callVars, selVars, logVars,
                   sideVars>>

----------------------------------------------------------------------------
(* model-mapping: mapModel *)

\* the values a property read yields: a string, undefined, or a function
\* inherited from Object.prototype
Undefined == [t |-> "undefined", v |-> ""]
Str(s) == [t |-> "string", v |-> s]
Inherited(name) == [t |-> "function", v |-> name]

\* names every object literal inherits from Object.prototype
PrototypeNames == {"constructor", "toString"}

DEFAULT_MAPPINGS ==
    "gpt-4" :> "gemini-1.5-pro" @@
    "gpt-4-turbo" :> "gemini-1.5-pro" @@
    "gpt-4-turbo-preview" :> "gemini-1.5-pro" @@
    "gpt-4-0125-preview" :> "gemini-1.5-pro" @@
    "gpt-4-1106-preview" :> "gemini-1.5-pro" @@
    "gpt-4o" :> "gemini-1.5-pro" @@
    "gpt-4o-mini" :> "gemini-1.5-flash" @@
    "gpt-3.5-turbo" :> "gemini-1.5-flash" @@
    "gpt-3.5-turbo-0125" :> "gemini-1.5-flash" @@
    "gpt-3.5-turbo-1106" :> "gemini-1.5-flash" @@
    "claude-3-opus-20240229" :> "gemini-1.5-pro" @@
    "claude-3-sonnet-20240229" :> "gemini-1.5-pro" @@
    "claude-3-haiku-20240307" :> "gemini-1.5-flash" @@
    "claude-3-5-sonnet-20240620" :> "gemini-1.5-pro" @@
    "claude-3-5-sonnet-20241022" :> "gemini-1.5-pro" @@
    "gemini-1.5-pro" :> "gemini-1.5-pro" @@
    "gemini-1.5-flash" :> "gemini-1.5-flash" @@
    "gemini-1.5-flash-8b" :> "gemini-1.5-flash-8b" @@
    "gemini-2.0-flash-exp" :> "gemini-2.0-flash-exp" @@
    "gemini-2.0-flash-thinking-exp" :> "gemini-2.0-flash-thinking-exp" @@
    "gemini-exp-1206" :> "gemini-exp-1206" @@
    "dall-e-3" :> "imagen-3.0-generate-001" @@
    "dall-e-2" :> "imagen-3.0-generate-001"

\* let customMappings = {}
EmptyTable == [n \in {} |-> ""]

\* the model names requests carry, and the names and values an operator's
\* MODEL_MAPPING_JSON object holds
ModelNames == {"gpt-4", "claude-3-haiku-20240307", "my-model", "constructor"}
OverrideValues == {"gemini-custom", ""}
OverrideTables == UNION {[names -> OverrideValues] : names \in SUBSET ModelNames}

\* MODEL_MAPPING_JSON: unset, text that is no JSON, the JSON null, or an object
MappingEnvs ==
    {[kind |-> k, table |-> EmptyTable] : k \in {"unset", "malformed", "null"}}
    \cup {[kind |-> "object", table |-> table] : table \in OverrideTables}

\* table[name], for an object literal
GetProperty(table, name) ==
    IF name \in DOMAIN table THEN Str(table[name])
    ELSE IF name \in PrototypeNames THEN Inherited(name)
    ELSE Undefined

\* the test `if (value)`
Truthy(value) == value # Undefined /\ value # Str("")

\* customMappings after loadCustomMappings(): the parsed object; {} when the
\* variable is unset ('{}' is parsed), when JSON.parse throws, and when
\* Object.keys throws on a parsed null
loadCustomMappings(env) == IF env.kind = "object" THEN env.table ELSE EmptyTable

\* what mapModel returns once customMappings is table
MappedName(table, modelName) ==
    IF Truthy(GetProperty(table, modelName)) THEN GetProperty(table, modelName)
    ELSE IF Truthy(GetProperty(DEFAULT_MAPPINGS, modelName))
         THEN GetProperty(DEFAULT_MAPPINGS, modelName)
    ELSE Str(modelName)

NoMapped == [name |-> "", out |-> Undefined]

\* mapModel(modelName): customMappings is loaded first while it has no keys
mapModel(modelName) ==
    LET load == DOMAIN customMappings = {}
        table == IF load THEN loadCustomMappings(mappingEnv) ELSE customMappings
    IN  /\ load => parses < MaxParses
        /\ customMappings' = table
        /\ parses' = IF load THEN parses + 1 ELSE parses
        /\ mapped' = [name |-> modelName, out |-> MappedName(table, modelName)]
        /\ UNCHANGED <<mappingEnv, managerVars, streamVars, translateVars>>

----------------------------------------------------------------------------
(* The stream re-encoders: start(controller) of the ReadableStream each     *)
(* handler returns for a streamed upstream response                         *)

\* One event of the upstream body, sent as the line "data: <payload>" and a
\* blank line.  kind "chunk": the payload is a JSON chunk with
\* candidates[0].content.parts[0].text (text, "" when absent), the text of
\* the parts after the first (more, "" when there is none),
\* candidates[0].finishReason (finishReason, "" when absent) and
\* usageMetadata.candidatesTokenCount (tokens, -1 when absent); "malformed":
\* the payload is no JSON; "done": the payload is [DONE].
UpEvent(kind, text, finishReason, tokens) ==
    [kind |-> kind, text |-> text, more |-> "", finishReason |-> finishReason,
     tokens |-> tokens]

TextChunk(text) == UpEvent("chunk", text, "", -1)
FinishChunk(finishReason, tokens) == UpEvent("chunk", "", finishReason, tokens)
\* a chunk whose first part holds no text and whose second part holds text
LaterPartChunk(text) == [UpEvent("chunk", "", "", -1) EXCEPT !.more = text]
MalformedLine == UpEvent("malformed", "", "", -1)
DoneLine == UpEvent("done", "", "", -1)

StreamEvents ==
    {TextChunk("Hello"), TextChunk(" world"), LaterPartChunk("late"),
     FinishChunk("STOP", 7), FinishChunk("MAX_TOKENS", 7), FinishChunk("SAFETY", -1),
     MalformedLine, DoneLine}

\* The body as text: a newline, or a piece of a line; the first piece of a
\* line starts with "data: " and holds the start of the payload, the second
\* holds the rest of it.
Newline == [part |-> 0, ev |-> MalformedLine]
Piece(part, ev) == [part |-> part, ev |-> ev]

RECURSIVE BodyText(_)
BodyText(events) ==
    IF events = <<>> THEN <<>>
    ELSE <<Piece(1, Head(events)), Piece(2, Head(events)), Newline, Newline>>
         \o BodyText(Tail(events))

\* a split that keeps no incomplete line for the next read
RECURSIVE SplitFromDroppingRest(_, _, _)
SplitFromDroppingRest(text, line, lines) ==
    IF text = <<>> THEN [lines |-> lines, rest |-> <<>>]
    ELSE IF Head(text) = Newline
         THEN SplitFromDroppingRest(Tail(text), <<>>, Append(lines, line))
         ELSE SplitFromDroppingRest(Tail(text), Append(line, Head(text)), lines)

\* buffer.split('\n') and lines.pop(): the complete lines and the rest
RECURSIVE SplitFrom(_, _, _)
SplitFrom(text, line, lines) ==
    IF text = <<>> THEN [lines |-> lines, rest |-> line]
    ELSE IF Head(text) = Newline
         THEN SplitFrom(Tail(text), <<>>, Append(lines, line))
         ELSE SplitFrom(Tail(text), Append(line, Head(text)), lines)

SplitLines(text) == SplitFrom(text, <<>>, <<>>)

\* line.startsWith('data: ')
StartsWithData(line) == line # <<>> /\ line[1].part = 1

\* line.slice(6) as the parser sees it: the event when the line is whole,
\* text that is no JSON otherwise
Payload(line) ==
    IF Len(line) = 2 /\ line[2].part = 2 /\ line[2].ev = line[1].ev
    THEN line[1].ev ELSE MalformedLine

\* an event enqueued on the output stream
OutEvent(type, text, reason, tokens) ==
    [type |-> type, text |-> text, reason |-> reason, tokens |-> tokens]

\* chat completions: a chunk with delta.content, the chunk with an empty
\* delta and finish_reason 'stop', and the terminator "data: [DONE]"
ChatDelta(text) == OutEvent("chunk", text, "", 0)
ChatFinish == OutEvent("chunk", "", "stop", 0)
ChatDone == OutEvent("[DONE]", "", "", 0)

\* messages: the events of the block lifecycle
MessageStart == OutEvent("message_start", "", "", 0)
ContentBlockStart == OutEvent("content_block_start", "", "", 0)
ContentBlockDelta(text) == OutEvent("content_block_delta", text, "", 0)
ContentBlockStop == OutEvent("content_block_stop", "", "", 0)
MessageDelta(reason, tokens) == OutEvent("message_delta", "", reason, tokens)
MessageStop == OutEvent("message_stop", "", "", 0)

\* geminiData.usageMetadata?.candidatesTokenCount || 0
OutputTokens(ev) == IF ev.tokens = -1 THEN 0 ELSE ev.tokens

\* The state of one pass over the lines of a read: the events enqueued so
\* far, messageStarted, and whether an exception left the loop (thrown).
LineState(out, started, thrown) == [out |-> out, started |-> started, thrown |-> thrown]

\* upstream.ts, one line of the for loop.  open: the output stream takes
\* events; when it does not, controller.enqueue throws: inside the inner try
\* the exception is swallowed, at the [DONE] line it leaves the loop.
ChatLine(st, line, open) ==
    IF ~StartsWithData(line) THEN st
    ELSE LET data == Payload(line)
         IN  CASE data.kind = "done" ->
                    IF open THEN [st EXCEPT !.out = Append(@, ChatDone)]
                    ELSE [st EXCEPT !.thrown = TRUE]
               [] data.kind = "malformed" -> st
               [] OTHER ->
                    IF ~open THEN st
                    ELSE [st EXCEPT !.out =
                            @ \o (IF data.text # "" THEN <<ChatDelta(data.text)>> ELSE <<>>)
                              \o (IF data.finishReason # "" THEN <<ChatFinish>> ELSE <<>>)]

\* the stop_reason a streamed message_delta carries
StreamStopReason(finishReason) == "end_turn"

\* a re-encoder without messageStarted: every chunk opens the message
MessagesLineRestarting(st, line, open) ==
    IF ~StartsWithData(line) \/ Payload(line).kind # "chunk" \/ ~open THEN st
    ELSE [st EXCEPT
            !.out = @
              \o <<MessageStart, ContentBlockStart>>
              \o (IF Payload(line).text # "" THEN <<ContentBlockDelta(Payload(line).text)>>
                  ELSE <<>>)
              \o (IF Payload(line).finishReason # ""
                  THEN <<ContentBlockStop,
                         MessageDelta("end_turn", OutputTokens(Payload(line))),
                         MessageStop>>
                  ELSE <<>>)]

\* messages/route.ts, one line of the for loop: every enqueue is inside the
\* inner try, and messageStarted is set after the first two
MessagesLine(st, line, open) ==
    IF ~StartsWithData(line) THEN st
    ELSE LET data == Payload(line)
         IN  CASE data.kind = "done" -> st
               [] data.kind = "malformed" -> st
               [] OTHER ->
                    IF ~open THEN st
                    ELSE [st EXCEPT
                            !.out = @
                              \o (IF ~st.started THEN <<MessageStart, ContentBlockStart>>
                                  ELSE <<>>)
                              \o (IF data.text # "" THEN <<ContentBlockDelta(data.text)>>
                                  ELSE <<>>)
                              \o (IF data.finishReason # ""
                                  THEN <<ContentBlockStop,
                                         MessageDelta(StreamStopReason(data.finishReason),
                                                      OutputTokens(data)),
                                         MessageStop>>
                                  ELSE <<>>),
                            !.started = TRUE]

EncodeLine(enc, st, line, open) ==
    IF enc = "chat" THEN ChatLine(st, line, open) ELSE MessagesLine(st, line, open)

\* a loop that gives up the lines of a read at the first one that is no JSON
RECURSIVE ProcessLinesStopAtMalformed(_, _, _, _)
ProcessLinesStopAtMalformed(enc, st, lines, open) ==
    IF lines = <<>> \/ st.thrown THEN st
    ELSE IF StartsWithData(Head(lines)) /\ Payload(Head(lines)).kind = "malformed" THEN st
    ELSE ProcessLinesStopAtMalformed(enc, EncodeLine(enc, st, Head(lines), open),
                                     Tail(lines), open)

\* for (const line of lines) { ... }
RECURSIVE ProcessLines(_, _, _, _)
ProcessLines(enc, st, lines, open) ==
    IF lines = <<>> \/ st.thrown THEN st
    ELSE ProcessLines(enc, EncodeLine(enc, st, Head(lines), open), Tail(lines), open)

Prefix(s, n) == SubSeq(s, 1, n)
Suffix(s, n) == SubSeq(s, n + 1, Len(s))

\* reader.read() resolves with the next n pieces of the body: they are
\* appended to the buffer, its complete lines are re-encoded, and
\* reader.read() is called again.  An exception leaves the loop only on a
\* stream that is not readable; the outer catch then calls
\* controller.error(error), which does nothing on such a stream.
ReadResolves(n) ==
    /\ loop = "reading"
    /\ n \in 1..Len(upstreamText)
    /\ LET split == SplitLines(buffer \o Prefix(upstreamText, n))
           open == controller = "readable"
           st == ProcessLines(encoder, LineState(output, messageStarted, FALSE),
                              split.lines, open)
       IN  /\ upstreamText' = Suffix(upstreamText, n)
           /\ buffer' = split.rest
           /\ output' = st.out
           /\ messageStarted' = st.started
           /\ loop' = IF st.thrown THEN "returned" ELSE "reading"
           /\ controller' = controller
           /\ readAfterCancel' = (readAfterCancel \/ (controller = "cancelled" /\ ~st.thrown))
    /\ UNCHANGED <<encoder, upstreamEvents, upstreamEnd, managerVars, mapVars, translateVars>>

\* an end of stream that forces the finish framing of the messages protocol
ReadDoneForcingFinish ==
    /\ loop = "reading"
    /\ upstreamText = <<>>
    /\ upstreamEnd = "done"
    /\ loop' = "returned"
    /\ IF controller = "readable"
       THEN /\ output' = IF encoder = "chat" THEN Append(output, ChatDone)
                         ELSE output \o <<ContentBlockStop, MessageDelta("end_turn", 0),
                                          MessageStop>>
            /\ controller' = "closed"
       ELSE UNCHANGED <<output, controller>>
    /\ UNCHANGED <<encoder, upstreamEvents, upstreamText, upstreamEnd, buffer,
                   messageStarted, readAfterCancel, managerVars, mapVars, translateVars>>

\* an end of stream that closes without the terminator
ReadDoneNoTerminator ==
    /\ loop = "reading"
    /\ upstreamText = <<>>
    /\ upstreamEnd = "done"
    /\ loop' = "returned"
    /\ controller' = IF controller = "readable" THEN "closed" ELSE controller
    /\ UNCHANGED <<encoder, upstreamEvents, upstreamText, upstreamEnd, buffer,
                   messageStarted, output, readAfterCancel, managerVars, mapVars, translateVars>>

\* reader.read() resolves with done: the chat re-encoder enqueues the
\* terminator, and both close the output stream; on a stream the caller
\* cancelled enqueue and close throw, and the outer catch ends start()
ReadDone ==
    /\ loop = "reading"
    /\ upstreamText = <<>>
    /\ upstreamEnd = "done"
    /\ loop' = "returned"
    /\ IF controller = "readable"
       THEN /\ output' = IF encoder = "chat" THEN Append(output, ChatDone) ELSE output
            /\ controller' = "closed"
       ELSE UNCHANGED <<output, controller>>
    /\ UNCHANGED <<encoder, upstreamEvents, upstreamText, upstreamEnd, buffer,
                   messageStarted, readAfterCancel, managerVars, mapVars, translateVars>>

\* a read failure that ends the stream as if the upstream were done
ReadRejectsClosing ==
    /\ loop = "reading"
    /\ upstreamEnd = "fail"
    /\ loop' = "returned"
    /\ controller' = IF controller = "readable" THEN "closed" ELSE controller
    /\ output' = IF controller = "readable" /\ encoder = "chat"
                 THEN Append(output, ChatDone) ELSE output
    /\ UNCHANGED <<encoder, upstreamEvents, upstreamText, upstreamEnd, buffer,
                   messageStarted, readAfterCancel, managerVars, mapVars, translateVars>>

\* reader.read() rejects: the outer catch calls controller.error(error)
ReadRejects ==
    /\ loop = "reading"
    /\ upstreamEnd = "fail"
    /\ loop' = "returned"
    /\ controller' = IF controller = "readable" THEN "errored" ELSE controller
    /\ UNCHANGED <<encoder, upstreamEvents, upstreamText, upstreamEnd, buffer,
                   messageStarted, output, readAfterCancel, managerVars, mapVars, translateVars>>

\* the caller cancels the output stream: the underlying source has no
\* cancel(), so nothing of start() or of the upstream reader is touched
Cancel ==
    /\ controller = "readable"
    /\ controller' = "cancelled"
    /\ UNCHANGED <<encoder, upstreamEvents, upstreamText, upstreamEnd, buffer,
                   messageStarted, output, loop, readAfterCancel, managerVars, mapVars, translateVars>>

----------------------------------------------------------------------------
(* The request translators: convertMessages (chat completions) and          *)
(* convertClaudeToGemini (messages)                                         *)

Translators == {"chat", "messages"}
Roles == {"system", "user", "assistant"}

\* the type of an image block in each protocol
ImageType(t) == IF t = "chat" THEN "image_url" ELSE "image"

\* The image a block holds.  form "inline": embedded as base64 (chat: the
\* url is a data: URI; messages: source {type: 'base64', media_type, data}),
\* mime is the MIME type the embedding names ("" when it names none);
\* form "remote": a reference to a remote URL (chat: an http(s) url;
\* messages: source {type: 'url', url}); form "absent": no url, no source.
Image(form, mime) == [form |-> form, mime |-> mime]
NoImage == Image("absent", "")

\* the base64 payload of an embedded image
ImageData == "iVBORw0KGgo="

TextBlock(text) == [type |-> "text", text |-> text, image |-> NoImage]
ImageBlock(t, form, mime) == [type |-> ImageType(t), text |-> "", image |-> Image(form, mime)]

Blocks(t) ==
    {TextBlock("hi"), TextBlock(""),
     ImageBlock(t, "inline", "image/png"), ImageBlock(t, "inline", ""),
     ImageBlock(t, "remote", "")}

\* msg.content: a string or an array of blocks
StringContent(text) == [kind |-> "string", text |-> text, blocks |-> <<>>]
ArrayContent(blocks) == [kind |-> "array", text |-> "", blocks |-> blocks]

Contents(t) ==
    {StringContent("Hello"), StringContent("")}
    \cup {ArrayContent(blocks) : blocks \in UNION {[1..k -> Blocks(t)] : k \in 0..MaxParts}}

Message(role, content) == [role |-> role, content |-> content]
Messages(t) == {Message(role, content) : role \in Roles, content \in Contents(t)}

\* request.system of the messages protocol: absent or a string
SystemFields == {Undefined, Str(""), Str("Be brief")}

TranslateRequests(t) ==
    {[messages |-> messages, system |-> system] :
        messages \in UNION {[1..k -> Messages(t)] : k \in 0..MaxMessages},
        system \in IF t = "chat" THEN {Undefined} ELSE SystemFields}

\* the parts of a turn
TextPart(text) == [kind |-> "text", text |-> text, mimeType |-> Undefined, data |-> Undefined]
InlineData(mimeType, data) == [kind |-> "inlineData", text |-> "", mimeType |-> mimeType, data |-> data]

\* systemInstruction: undefined, or { parts: [{ text }] }; a text is the
\* sequence of its lines (the pieces between '\n')
NoInstruction == [set |-> FALSE, text |-> <<>>]
Instruction(text) == [set |-> TRUE, text |-> text]

\* convertMessages: what one block of an array content pushes
ChatParts(block) ==
    IF block.type = "text" /\ block.text # "" THEN <<TextPart(block.text)>>
    ELSE IF block.type = "image_url" /\ block.image.form # "absent"
         THEN IF block.image.form = "inline"
              THEN <<InlineData(Str(IF block.image.mime # "" THEN block.image.mime
                                    ELSE "image/jpeg"),
                                Str(ImageData))>>
              ELSE <<>>
    ELSE <<>>

\* convertClaudeToGemini: what one block of an array content pushes
ClaudeParts(block) ==
    IF block.type = "text" /\ block.text # "" THEN <<TextPart(block.text)>>
    ELSE IF block.type = "image" /\ block.image.form # "absent"
         THEN <<InlineData(IF block.image.form = "inline" /\ block.image.mime # ""
                           THEN Str(block.image.mime) ELSE Undefined,
                           IF block.image.form = "inline" THEN Str(ImageData)
                           ELSE Undefined)>>
    ELSE <<>>

RECURSIVE PartsFrom(_, _)
PartsFrom(t, blocks) ==
    IF blocks = <<>> THEN <<>>
    ELSE (IF t = "chat" THEN ChatParts(Head(blocks)) ELSE ClaudeParts(Head(blocks)))
         \o PartsFrom(t, Tail(blocks))

\* the parts of the turn a message becomes
TurnParts(t, content) ==
    IF content.kind = "string" THEN <<TextPart(content.text)>>
    ELSE PartsFrom(t, content.blocks)

\* the role of the turn
TurnRole(role) == IF role = "assistant" THEN "model" ELSE "user"

Turn(t, msg) == [role |-> TurnRole(msg.role), parts |-> TurnParts(t, msg.content)]

IsTextBlock(block) == block.type = "text"

\* convertMessages: the text of a system message; the texts of the text
\* blocks of an array content are joined with '\n'
SystemText(content) ==
    IF content.kind = "string" THEN <<content.text>>
    ELSE LET texts == SelectSeq(content.blocks, IsTextBlock)
         IN  IF texts = <<>> THEN <<"">>
             ELSE [i \in 1..Len(texts) |-> texts[i].text]

Translation(contents, systemInstruction) ==
    [done |-> TRUE, contents |-> contents, systemInstruction |-> systemInstruction]
NoTranslation == [done |-> FALSE, contents |-> <<>>, systemInstruction |-> NoInstruction]

\* convertMessages, its loop from the state (contents, systemInstruction)
RECURSIVE ConvertFrom(_, _, _)
ConvertFrom(messages, contents, systemInstruction) ==
    IF messages = <<>> THEN Translation(contents, systemInstruction)
    ELSE LET msg == Head(messages)
         IN  IF msg.role = "system"
             THEN ConvertFrom(Tail(messages), contents,
                              Instruction(SystemText(msg.content)))
             ELSE ConvertFrom(Tail(messages), Append(contents, Turn("chat", msg)),
                              systemInstruction)

convertMessages(messages) == ConvertFrom(messages, <<>>, NoInstruction)

convertClaudeToGemini(r) ==
    Translation([i \in 1..Len(r.messages) |-> Turn("messages", r.messages[i])],
                IF Truthy(r.system) THEN Instruction(<<r.system.v>>) ELSE NoInstruction)

\* one call of a translator
Translate ==
    /\ translator # "none"
    /\ ~translated.done
    /\ translated' = IF translator = "chat" THEN convertMessages(request.messages)
                     ELSE convertClaudeToGemini(request)
    /\ UNCHANGED <<translator, request, managerVars, mapVars, streamVars>>

----------------------------------------------------------------------------
(* Specifications *)

ManagerInit ==
    /\ accounts = EmptyPool
    /\ currentIndex = 0
    /\ lastRefreshTime = 0
    /\ clock = StartClock
    /\ pc = [h \in Handlers |-> "idle"]
    /\ req = [h \in Handlers |-> NoRequest]
    /\ acct = [h \in Handlers |-> NoAccount]
    /\ detached = [h \in Handlers |-> FALSE]
    /\ result = [h \in Handlers |-> NoResult]
    /\ response = [h \in Handlers |-> NoResponse]
    /\ upstreamCalled = [h \in Handlers |-> FALSE]
    /\ attempts = [h \in Handlers |-> 0]
    /\ selCount = [h \in Handlers |-> 0]
    /\ selIndex = [h \in Handlers |-> -1]
    /\ selLen = [h \in Handlers |-> -1]
    /\ selKind = [h \in Handlers |-> "none"]
    /\ lastLoad = "none"
    /\ rotation = NoRotation

\* no mapModel call was made and MODEL_MAPPING_JSON is unset
MapIdle ==
    /\ customMappings = EmptyTable
    /\ mappingEnv = [kind |-> "unset", table |-> EmptyTable]
    /\ mapped = NoMapped
    /\ parses = 0

\* no streamed response is being re-encoded
StreamIdle ==
    /\ encoder = "none"
    /\ upstreamEvents = <<>>
    /\ upstreamText = <<>>
    /\ upstreamEnd = "done"
    /\ buffer = <<>>
    /\ messageStarted = FALSE
    /\ output = <<>>
    /\ controller = "closed"
    /\ loop = "returned"
    /\ readAfterCancel = FALSE

\* no request is being translated
TranslateIdle ==
    /\ translator = "none"
    /\ request = [messages |-> <<>>, system |-> Undefined]
    /\ translated = NoTranslation

Init == ManagerInit /\ MapIdle /\ StreamIdle /\ TranslateIdle

\* the configuration blobs of Spec and of SpecLoad
SpecBlobs == Blobs({"PRO"}, {ExpirySoon, ExpiryLate}, MaxBlobLen)
LoadBlobs == Blobs(Tiers, {ExpiryLate}, MaxSortLen)

RefreshData == [access_token : NewTokens, expires_in : Lifetimes]

\* Requests are handled one at a time: the pool manager called by either
\* handler, the health check, and the clock.
Next ==
    \/ \E h \in Handlers, r \in Requests :
         \E blob \in StartBlobs(h, r, SpecBlobs) : StartAlone(h, r, blob)
    \/ \E h \in Handlers : FetchThrows(h)
    \/ \E h \in Handlers, ok \in BOOLEAN : FetchResponds(h, ok)
    \/ \E h \in Handlers : TextSettles(h)
    \/ \E h \in Handlers : JsonThrows(h)
    \/ \E h \in Handlers, data \in RefreshData : JsonResolves(h, data)
    \/ \E h \in Handlers :
         \E blob \in BlobChoices(SpecBlobs) : Retry(h, blob)
    \/ \E h \in Handlers : Resume(h)
    \/ \E h \in Handlers, status \in UpstreamStatuses : UpstreamSettles(h, status)
    \/ \E h \in Handlers : Finish(h)
    \/ \E blob \in SpecBlobs : GetAccountCount(blob)
    \/ Tick

Spec == Init /\ [][Next]_vars

\* loadAccounts alone, on the account lists of every tier mix
NextLoad == \E blob \in LoadBlobs : GetAccountCount(blob)

SpecLoad == Init /\ [][NextLoad]_vars

\* Two requests handled concurrently by one instance: well-formed requests
\* and a configuration that is a list of enabled accounts.
ValidRequest == [auth |-> TRUE, json |-> TRUE, model |-> TRUE, messages |-> "list"]

ConcurrentBlobs ==
    {blob \in SpecBlobs :
        /\ blob.kind = "array"
        /\ \A i \in 1..Len(blob.items) :
              ~blob.items[i].isnull /\ blob.items[i].flag = "none"}

NextConcurrent ==
    \/ \E h \in Handlers :
         \E blob \in BlobChoices(ConcurrentBlobs) : StartConcurrent(h, ValidRequest, blob)
    \/ \E h \in Handlers : FetchThrows(h)
    \/ \E h \in Handlers, ok \in BOOLEAN : FetchResponds(h, ok)
    \/ \E h \in Handlers : TextSettles(h)
    \/ \E h \in Handlers : JsonThrows(h)
    \/ \E h \in Handlers, data \in RefreshData : JsonResolves(h, data)
    \/ \E h \in Handlers :
         \E blob \in BlobChoices(ConcurrentBlobs) : Retry(h, blob)
    \/ \E h \in Handlers : Resume(h)
    \/ \E h \in Handlers, status \in UpstreamStatuses : UpstreamSettles(h, status)
    \/ \E h \in Handlers : Finish(h)
    \/ Tick

SpecConcurrent == Init /\ [][NextConcurrent]_vars

\* mapModel alone, in a process started with any MODEL_MAPPING_JSON
InitMap ==
    /\ ManagerInit
    /\ StreamIdle
    /\ TranslateIdle
    /\ customMappings = EmptyTable
    /\ mappingEnv \in MappingEnvs
    /\ mapped = NoMapped
    /\ parses = 0

NextMap == \E modelName \in ModelNames : mapModel(modelName)

SpecMap == InitMap /\ [][NextMap]_vars

\* One streamed response: start() was called when the ReadableStream was
\* constructed and awaits its first reader.read().
UpstreamBodies == UNION {[1..k -> StreamEvents] : k \in 0..MaxEvents}

InitStream ==
    /\ ManagerInit
    /\ MapIdle
    /\ TranslateIdle
    /\ encoder \in Handlers
    /\ upstreamEvents \in UpstreamBodies
    /\ upstreamText = BodyText(upstreamEvents)
    /\ upstreamEnd \in {"done", "fail"}
    /\ buffer = <<>>
    /\ messageStarted = FALSE
    /\ output = <<>>
    /\ controller = "readable"
    /\ loop = "reading"
    /\ readAfterCancel = FALSE

NextStream ==
    \/ \E n \in 1..Len(upstreamText) : ReadResolves(n)
    \/ ReadDone
    \/ ReadRejects
    \/ Cancel

SpecStream == InitStream /\ [][NextStream]_vars

\* One request body given to its translator
InitTranslate ==
    /\ ManagerInit
    /\ MapIdle
    /\ StreamIdle
    /\ translator \in Translators
    /\ request \in TranslateRequests(translator)
    /\ translated = NoTranslation

NextTranslate == Translate

SpecTranslate == InitTranslate /\ [][NextTranslate]_vars

----------------------------------------------------------------------------
(* Properties of the credential pool manager *)

\* C1: the pool never holds an account whose disabled or proxy_disabled
\* flag is set, and getToken never returns such an account.
C1_NoDisabledAccount ==
    /\ accounts.kind = "array" =>
          \A i \in 1..Len(accounts.items) :
              \/ accounts.items[i].isnull
              \/ (~accounts.items[i].disabled /\ ~accounts.items[i].proxy_disabled)
    /\ \A h \in Handlers :
          result[h].kind = "token" =>
              (~result[h].account.disabled /\ ~result[h].account.proxy_disabled)

\* C2: a getToken call makes at most pool-length refresh attempts (and then
\* returns null when all of them failed).
C2_RetriesBounded ==
    \A h \in Handlers :
        (pc[h] \in RefreshPcs /\ accounts.kind = "array") =>
            attempts[h] <= Len(accounts.items)

\* the pool is a list of n >= 1 account records
C3_PoolOfAccounts ==
    /\ accounts.kind = "array"
    /\ Len(accounts.items) >= 1
    /\ \A i \in 1..Len(accounts.items) : ~accounts.items[i].isnull

\* the account the k-th call of the window is due in cyclic order
C3_DueSrc(k) ==
    accounts.items[((rotation.start + k - 1) % Len(accounts.items)) + 1].src

C3_PoolOfEntries == accounts.kind = "array" /\ Len(accounts.items) >= 1

\* what the k-th call of the window returns when it serves the entry due in
\* cyclic order: that account, or nothing when the entry is no account record
C3_DueServed(k) ==
    LET due == accounts.items[((rotation.start + k - 1) % Len(accounts.items)) + 1]
    IN  IF due.isnull THEN 0 ELSE due.src

C4_SelectionInBounds ==
    \A h \in Handlers :
        selCount[h] > 0 =>
            /\ selKind[h] # "undefined"
            /\ selIndex[h] >= 0
            /\ selIndex[h] < selLen[h]

\* C5: a selection of an account with now >= expiry_timestamp - 300 calls
\* refreshToken once for it, and nothing calls it again until getToken
\* returns that account with the refreshed token or selects again; a
\* selection with now < expiry_timestamp - 300 calls no refresh and returns
\* the stored access_token.
C5_SelectionStep(h) ==
    LET a == acct'[h]
    IN  IF selCount'[h] = selCount[h] + 1
        THEN selKind'[h] = "account" =>
               /\ a = accounts'.items[selIndex'[h] + 1]
               /\ IF clock >= a.expiry_timestamp - 300
                  THEN /\ attempts'[h] = attempts[h] + 1
                       /\ pc'[h] \in RefreshPcs
                       /\ result'[h].kind = "none"
                  ELSE /\ attempts'[h] = attempts[h]
                       /\ pc'[h] = "returned"
                       /\ result'[h] = [kind |-> "token", account |-> a,
                                        token |-> a.access_token]
        ELSE pc[h] \in RefreshPcs =>
               /\ attempts'[h] = attempts[h]
               /\ pc'[h] \in RefreshPcs \cup {"returned"}
               /\ pc'[h] = "returned" =>
                     /\ result'[h].kind \in {"token", "null", "throw"}
                     /\ result'[h].kind = "token" =>
                           /\ result'[h].account.src = acct[h].src
                           /\ result'[h].token \in NewTokens

C5_OneRefreshPerExpiringSelection == [][\A h \in Handlers : C5_SelectionStep(h)]_vars

C5_Witness ==
    \E h \in Handlers :
        /\ pc[h] = "returned"
        /\ result[h].kind = "token"
        /\ result[h].token = CfgToken
        /\ selCount[h] = 2
        /\ attempts[h] = 1

\* C6: when refreshToken fails it returns null and leaves the account's
\* access_token, expires_in and expiry_timestamp as they were.
C6_FailureStep(h) ==
    (pc[h] \in {"refresh_fetch", "refresh_text", "refresh_json"}
        /\ pc'[h] = "refresh_null") =>
        /\ accounts' = accounts
        /\ acct'[h] = acct[h]
        /\ result'[h].kind = "none"

C6_FailedRefreshKeepsAccount == [][\A h \in Handlers : C6_FailureStep(h)]_vars

C6_Witness ==
    \E h \in Handlers :
        /\ pc[h] = "refresh_null"
        /\ acct[h].access_token \in NewTokens
        /\ ~detached[h]
        /\ accounts.kind = "array"
        /\ \E i \in 1..Len(accounts.items) : accounts.items[i] = acct[h]

\* C7: when refreshToken succeeds the account's access_token is the
\* returned token, expires_in the returned lifetime, expiry_timestamp now +
\* that lifetime, and getToken returns that account with the new token.
C7_SuccessStep(h) ==
    (pc[h] = "refresh_json" /\ pc'[h] = "returned") =>
        \E token \in NewTokens, lifetime \in Lifetimes :
            LET after == [acct[h] EXCEPT !.access_token = token,
                                         !.expires_in = lifetime,
                                         !.expiry_timestamp = clock + lifetime]
            IN  /\ result'[h] = [kind |-> "token", account |-> after, token |-> token]
                /\ (~detached[h] /\ accounts.kind = "array") =>
                      /\ accounts'.kind = "array"
                      /\ Len(accounts'.items) = Len(accounts.items)
                      /\ \A i \in 1..Len(accounts.items) :
                            accounts'.items[i] =
                                IF accounts.items[i].src = acct[h].src
                                THEN [accounts.items[i] EXCEPT
                                        !.access_token = token,
                                        !.expires_in = lifetime,
                                        !.expiry_timestamp = clock + lifetime]
                                ELSE accounts.items[i]

C7_SuccessfulRefreshUpdatesAccount == [][\A h \in Handlers : C7_SuccessStep(h)]_vars

C7_Witness ==
    \E h \in Handlers :
        /\ pc[h] = "returned"
        /\ result[h].kind = "token"
        /\ result[h].token \in NewTokens
        /\ accounts.kind = "array"
        /\ \E i \in 1..Len(accounts.items) :
              /\ accounts.items[i] = result[h].account
              /\ accounts.items[i].access_token = result[h].token
              /\ accounts.items[i].expiry_timestamp = clock + accounts.items[i].expires_in

\* C8: after loadAccounts ran on a blob that does not parse into a list of
\* account records, the pool is empty.
C8_FailedLoadEmptiesPool == lastLoad = "failed" => accounts = EmptyPool

\* C9: after a successful loadAccounts an account of a higher-priority tier
\* (ULTRA 0, PRO 1, FREE 2, unspecified 3) precedes every account of a
\* lower-priority tier, and accounts of equal tier keep their input order.
C9_Priority(a) ==
    CASE a.subscription_tier = "ULTRA" -> 0
      [] a.subscription_tier = "PRO" -> 1
      [] a.subscription_tier = "FREE" -> 2
      [] OTHER -> 3

C9_SortedByTierStable ==
    lastLoad = "ok" =>
        \A i, j \in 1..Len(accounts.items) :
            i < j =>
                /\ C9_Priority(accounts.items[i]) <= C9_Priority(accounts.items[j])
                /\ C9_Priority(accounts.items[i]) = C9_Priority(accounts.items[j]) =>
                      accounts.items[i].src < accounts.items[j].src

C9_Witness ==
    /\ lastLoad = "ok"
    /\ Len(accounts.items) = 3
    /\ accounts.items[1].src = 2
    /\ accounts.items[2].src = 1
    /\ accounts.items[3].src = 3
    /\ accounts.items[2].subscription_tier = accounts.items[3].subscription_tier

\* C10: when the pool is still empty after the reload getToken returns null
\* without throwing, and the handler answers with its no-credential error
\* (chat completions: 503 server_error; messages: 529 overloaded_error)
\* without an upstream call.
C10_EmptyPoolStep(h) ==
    (pc[h] \in {"idle", "refresh_null"} /\ pc'[h] = "returned"
        /\ accounts' = [kind |-> "array", items |-> <<>>]) =>
        result'[h].kind = "null"

C10_NoCredentialResponse(h) ==
    (pc[h] = "responded" /\ result[h].kind = "null") =>
        /\ response[h] = IF h = "chat"
                         THEN [status |-> 503, type |-> "server_error"]
                         ELSE [status |-> 529, type |-> "overloaded_error"]
        /\ ~upstreamCalled[h]

C10_EmptyPoolGivesNoCredential ==
    /\ [][\A h \in Handlers : C10_EmptyPoolStep(h)]_vars
    /\ [](\A h \in Handlers : C10_NoCredentialResponse(h))

C10_Witness ==
    /\ pc["messages"] = "responded"
    /\ result["messages"].kind = "null"
    /\ accounts = EmptyPool
    /\ response["messages"].status = 529
    /\ ~upstreamCalled["messages"]

\* the src of the pool's accounts, in pool order
C11_Members(pool) ==
    IF pool.kind # "array" THEN <<>> ELSE [i \in 1..Len(pool.items) |-> pool.items[i].src]

\* this step is a run of getToken() for handler h: the handler's call, or the
\* call getToken makes after a failed refresh
C11_GetTokenEntered(h) ==
    \/ pc[h] = "idle" /\ pc'[h] \notin {"idle", "responded"}
    \/ pc[h] = "refresh_null" /\ (pc'[h] = "returned" \/ attempts'[h] = attempts[h] + 1)

\* on entry the pool is empty or the recorded reload is older than 5 minutes
C11_ReloadDue ==
    \/ accounts = [kind |-> "array", items |-> <<>>]
    \/ clock * 1000 - lastRefreshTime > 300000

\* C11: a getToken call re-parses the configuration exactly when, on entry,
\* the pool is empty or more than 5 minutes have passed since the reload it
\* recorded last; otherwise it leaves the pool's membership and order unchanged.
C11_ReloadStep(h) ==
    C11_GetTokenEntered(h) =>
        /\ (lastLoad' # "none") <=> C11_ReloadDue
        /\ lastLoad' = "none" =>
              /\ accounts'.kind = accounts.kind
              /\ C11_Members(accounts') = C11_Members(accounts)

C11_ReloadExactlyWhenDue == [][\A h \in Handlers : C11_ReloadStep(h)]_vars

\* a request that is JSON-malformed or lacks a required field
C19_Malformed(r) == r.auth /\ (~r.json \/ ~r.model \/ r.messages # "list")

\* C19: a request whose body is not JSON or lacks model or a non-empty
\* messages list is answered with a 4xx error, and neither getToken nor the
\* request translator (and the upstream call it feeds) runs for it.
C19_MalformedRequestRejected ==
    \A h \in Handlers :
        C19_Malformed(req[h]) =>
            /\ result[h] = NoResult
            /\ attempts[h] = 0 /\ selCount[h] = 0
            /\ ~upstreamCalled[h]
            /\ pc[h] \in {"idle", "responded"}
            /\ pc[h] = "responded" =>
                  /\ response[h].status \in 400..499
                  /\ response[h].type = "invalid_request_error"

----------------------------------------------------------------------------
(* Properties of mapModel *)

\* the operator's override table: the object MODEL_MAPPING_JSON holds
C12_OverrideTable == IF mappingEnv.kind = "object" THEN mappingEnv.table ELSE <<>>

\* C12: if the override table has an entry for n, mapModel(n) returns that
\* entry's value, also when the built-in table maps n; if neither table has
\* n, mapModel(n) returns n unchanged.
C12_OverrideWinsElseUnchanged ==
    mapped # NoMapped =>
        /\ mapped.name \in DOMAIN C12_OverrideTable =>
              mapped.out = [t |-> "string", v |-> C12_OverrideTable[mapped.name]]
        /\ (mapped.name \notin DOMAIN C12_OverrideTable
                /\ mapped.name \notin DOMAIN DEFAULT_MAPPINGS) =>
              mapped.out = [t |-> "string", v |-> mapped.name]

----------------------------------------------------------------------------
(* Properties of the stream re-encoders *)

C13_IsText(ev) == ev.kind = "chunk" /\ ev.text # "" /\ ev.finishReason = ""
C13_IsFinish(ev) == ev.kind = "chunk" /\ ev.text = "" /\ ev.finishReason # ""

\* k >= 1 text chunks followed by one finish chunk
C13_TextsThenFinish(events) ==
    /\ Len(events) >= 2
    /\ C13_IsFinish(events[Len(events)])
    /\ \A i \in 1..(Len(events) - 1) : C13_IsText(events[i])

\* type and text of each event of a sequence
C13_Shapes(events) == [i \in 1..Len(events) |-> <<events[i].type, events[i].text>>]

C13_IsPrefix(s, full) == Len(s) <= Len(full) /\ s = SubSeq(full, 1, Len(s))

\* what the messages re-encoder is to emit for k text chunks and a finish chunk
C13_Expected(events) ==
    <<<<"message_start", "">>, <<"content_block_start", "">>>>
    \o [i \in 1..(Len(events) - 1) |-> <<"content_block_delta", events[i].text>>]
    \o <<<<"content_block_stop", "">>, <<"message_delta", "">>, <<"message_stop", "">>>>

\* C13: for k >= 1 text chunks followed by one finish chunk the messages
\* re-encoder emits, in this order and nothing else: message_start,
\* content_block_start, one content_block_delta per text chunk in upstream
\* order, content_block_stop, message_delta, message_stop.
C13_MessagesEventOrder ==
    (encoder = "messages" /\ C13_TextsThenFinish(upstreamEvents)
        /\ controller # "cancelled") =>
        /\ C13_IsPrefix(C13_Shapes(output), C13_Expected(upstreamEvents))
        /\ upstreamText = <<>> => C13_Shapes(output) = C13_Expected(upstreamEvents)

C13_Witness ==
    /\ encoder = "messages"
    /\ Len(upstreamEvents) = 3
    /\ C13_TextsThenFinish(upstreamEvents)
    /\ upstreamEvents[1].text = "Hello" /\ upstreamEvents[2].text = " world"
    /\ loop = "returned" /\ controller = "closed"
    /\ Len(output) = 7

\* what the chat re-encoder is to emit for k text chunks, a finish chunk and
\* the end of the stream: <<type, delta content, finish_reason>>
C14_Expected(events) ==
    [i \in 1..(Len(events) - 1) |-> <<"chunk", events[i].text, "">>]
    \o <<<<"chunk", "", "stop">>, <<"[DONE]", "", "">>>>

C14_Shapes(events) ==
    [i \in 1..Len(events) |-> <<events[i].type, events[i].text, events[i].reason>>]

\* C14: for k >= 1 text chunks followed by one finish chunk and the end of
\* the stream the chat re-encoder emits, in this order and nothing else: one
\* chunk with delta content per text chunk, one chunk with an empty delta
\* and finish_reason stop, the [DONE] terminator; then it closes.
C14_ChatEventOrder ==
    (encoder = "chat" /\ C13_TextsThenFinish(upstreamEvents)
        /\ controller # "cancelled") =>
        /\ C13_IsPrefix(C14_Shapes(output), C14_Expected(upstreamEvents))
        /\ (loop = "reading" \/ upstreamEnd = "fail") =>
              /\ Len(output) < Len(upstreamEvents) + 1
              /\ controller # "closed"
        /\ (loop = "returned" /\ upstreamEnd = "done") =>
              /\ C14_Shapes(output) = C14_Expected(upstreamEvents)
              /\ controller = "closed"

C14_Witness ==
    /\ encoder = "chat"
    /\ Len(upstreamEvents) = 3
    /\ C13_TextsThenFinish(upstreamEvents)
    /\ upstreamEvents[1].text = "Hello" /\ upstreamEvents[2].text = " world"
    /\ loop = "returned" /\ controller = "closed"
    /\ Len(output) = 4

\* the translation of the valid lines evs, one after the other, as
\* <<type, text>>; started: the messages re-encoder has opened the message
RECURSIVE C15_Translation(_, _, _)
C15_Translation(enc, evs, started) ==
    IF evs = <<>> THEN <<>>
    ELSE LET ev == Head(evs)
             now == CASE ev.kind = "done" ->
                            IF enc = "chat" THEN <<<<"[DONE]", "">>>> ELSE <<>>
                      [] enc = "chat" ->
                            (IF ev.text # "" THEN <<<<"chunk", ev.text>>>> ELSE <<>>)
                            \o (IF ev.finishReason # "" THEN <<<<"chunk", "">>>> ELSE <<>>)
                      [] OTHER ->
                            (IF started THEN <<>>
                             ELSE <<<<"message_start", "">>, <<"content_block_start", "">>>>)
                            \o (IF ev.text # "" THEN <<<<"content_block_delta", ev.text>>>>
                                ELSE <<>>)
                            \o (IF ev.finishReason # ""
                                THEN <<<<"content_block_stop", "">>, <<"message_delta", "">>,
                                       <<"message_stop", "">>>>
                                ELSE <<>>)
         IN  now \o C15_Translation(enc, Tail(evs), started \/ (enc # "chat" /\ ev.kind = "chunk"))

C15_IsValid(ev) == ev.kind # "malformed"

C15_HasMalformed == \E i \in 1..Len(upstreamEvents) : ~C15_IsValid(upstreamEvents[i])

\* C15: a data line whose payload is no JSON produces no event and neither
\* closes nor aborts the output stream, and the valid data lines after it
\* are translated and emitted in order: the output is that of the valid
\* lines alone.
C15_MalformedLineSkipped ==
    (C15_HasMalformed /\ controller # "cancelled") =>
        LET valid == C15_Translation(encoder, SelectSeq(upstreamEvents, C15_IsValid), FALSE)
            ended == IF encoder = "chat" /\ controller = "closed"
                     THEN <<<<"[DONE]", "">>>> ELSE <<>>
        IN  /\ C13_IsPrefix(C13_Shapes(output), valid \o ended)
            /\ upstreamText = <<>> => C13_Shapes(output) = valid \o ended
            /\ loop = "reading" => controller = "readable"
            /\ controller = "errored" => upstreamEnd = "fail"
            /\ (loop = "returned" /\ upstreamEnd = "done") => controller = "closed"

C15_Witness ==
    /\ Len(upstreamEvents) = 3
    /\ ~C15_IsValid(upstreamEvents[1])
    /\ upstreamEvents[2].text = "Hello" /\ upstreamEvents[3].text = " world"
    /\ encoder = "chat"
    /\ loop = "returned" /\ controller = "closed"
    /\ Len(output) = 3

\* the finish chunks of the body, and the message_delta events emitted
C16_IsFinishChunk(ev) == ev.kind = "chunk" /\ ev.finishReason # ""
C16_IsMessageDelta(e) == e.type = "message_delta"

C16_StopReason(finishReason) == IF finishReason = "MAX_TOKENS" THEN "max_tokens" ELSE "end_turn"

\* C16: the message_delta emitted on a finish chunk carries the mapped
\* finish reason (MAX_TOKENS: max_tokens; STOP and any other: end_turn) and
\* the chunk's output token count (0 when absent).
C16_MessageDeltaCarriesFinish ==
    encoder = "messages" =>
        LET finishes == SelectSeq(upstreamEvents, C16_IsFinishChunk)
            deltas == SelectSeq(output, C16_IsMessageDelta)
        IN  /\ Len(deltas) <= Len(finishes)
            /\ \A j \in 1..Len(deltas) :
                  /\ deltas[j].reason = C16_StopReason(finishes[j].finishReason)
                  /\ deltas[j].tokens = IF finishes[j].tokens = -1 THEN 0
                                        ELSE finishes[j].tokens

\* C17: once message_stop was emitted the output stream is closed: no
\* further event is emitted, whatever the upstream sends next, and
\* message_stop appears at most once.
C17_ClosedAfterMessageStop ==
    encoder = "messages" =>
        \A i \in 1..Len(output) :
            output[i].type = "message_stop" =>
                /\ i = Len(output)
                /\ controller # "readable"

\* this step is reader.read() rejecting
C18_ReadFails ==
    /\ loop = "reading" /\ loop' = "returned"
    /\ upstreamEnd = "fail"
    /\ upstreamText' = upstreamText

\* C18: when reading the upstream fails, the output stream (unless the
\* caller cancelled it before) ends errored and is never closed normally,
\* and nothing ([DONE] included) is emitted on that path.
C18_ReadFailureStep ==
    /\ C18_ReadFails =>
          /\ output' = output
          /\ controller = "readable" => controller' = "errored"
          /\ controller' # "closed"
    /\ controller = "errored" => (controller' = "errored" /\ output' = output)

C18_ReadFailureErrorsStream == [][C18_ReadFailureStep]_vars

C18_Witness ==
    /\ encoder = "chat"
    /\ controller = "errored"
    /\ loop = "returned"
    /\ Len(output) = 2
    /\ upstreamText # <<>>

\* C20: after the caller cancelled the output stream the read loop issues
\* no further upstream read.
C20_NoReadAfterCancel == ~readAfterCancel

----------------------------------------------------------------------------
(* Further properties of the credential pool manager *)

\* handler h's getToken awaits a refreshToken call that has sent its request
C21_RefreshInFlight(h) == pc[h] \in {"refresh_fetch", "refresh_text", "refresh_json"}

\* C21: for every interleaving of concurrent getToken calls there are never
\* two refreshToken calls in flight for the same account at the same time.
C21_NoDoubleRefresh ==
    \A h, g \in Handlers :
        (h # g /\ C21_RefreshInFlight(h) /\ C21_RefreshInFlight(g)
            /\ ~detached[h] /\ ~detached[g]) =>
            acct[h].src # acct[g].src

\* this step is the call getToken makes after refreshToken returned null,
\* and it selects without a reload
C23_SelectsAfterFailure(h) ==
    /\ pc[h] = "refresh_null"
    /\ selCount'[h] = selCount[h] + 1
    /\ lastLoad' = "none"

\* C23: when refreshToken fails for the account selected at position i, the
\* next selection of the same getToken call (no other call interleaved, no
\* reload) is the account at position (i + 1) mod pool length.
C23_FallbackStep(h) ==
    C23_SelectsAfterFailure(h) =>
        /\ accounts'.kind = "array"
        /\ selLen'[h] = Len(accounts'.items)
        /\ selIndex'[h] = (selIndex[h] + 1) % Len(accounts'.items)
        /\ selKind'[h] # "undefined"
        /\ selKind'[h] = "account" =>
              acct'[h].src = accounts'.items[((selIndex[h] + 1) % Len(accounts'.items)) + 1].src

C23_FallbackSelectsNext == [][\A h \in Handlers : C23_FallbackStep(h)]_vars

C23_Witness ==
    /\ selCount["chat"] = 2
    /\ lastLoad = "none"
    /\ selLen["chat"] = 2
    /\ selIndex["chat"] = 0
    /\ selKind["chat"] = "account"
    /\ accounts.kind = "array" /\ Len(accounts.items) = 2
    /\ acct["chat"].src = accounts.items[1].src

\* this step ran loadAccounts inside a getToken call of handler h
C29_ReloadInGetToken(h) == C11_GetTokenEntered(h) /\ lastLoad' # "none"

\* C29: loadAccounts changes only the pool: the cursor is the same after a
\* reload as before it, successful or failed and whatever the new pool
\* size, so the next selection is old cursor mod new pool length.
C29_ReloadStep(h) ==
    C29_ReloadInGetToken(h) =>
        /\ currentIndex' \in {currentIndex, currentIndex + 1}
        /\ currentIndex' = currentIndex + 1 =>
              /\ accounts'.kind = "array"
              /\ selIndex'[h] = currentIndex % Len(accounts'.items)

C29_ReloadKeepsCursor ==
    [][/\ \A h \in Handlers : C29_ReloadStep(h)
       /\ (\A h \in Handlers : ~C11_GetTokenEntered(h)) => currentIndex' = currentIndex]_vars

----------------------------------------------------------------------------
(* Further properties of the stream re-encoders *)

C22_IsDone(e) == e.type = "[DONE]"

\* C22: for every upstream stream that ends normally, with or without a
\* "data: [DONE]" line in it, the chat re-encoder's output holds exactly one
\* [DONE] terminator, and it is the last event before the close.
C22_OneTerminator ==
    (encoder = "chat" /\ loop = "returned" /\ upstreamEnd = "done"
        /\ controller = "closed") =>
        /\ Len(SelectSeq(output, C22_IsDone)) = 1
        /\ C22_IsDone(output[Len(output)])

\* what a re-encoder emits when the whole body arrives in one read
C24_OneRead ==
    ProcessLines(encoder, LineState(<<>>, FALSE, FALSE),
                 SplitLines(BodyText(upstreamEvents)).lines, TRUE).out

\* the events of the lines, without the terminator added at the end of the stream
C24_OfLines ==
    IF encoder = "chat" /\ controller = "closed"
    THEN SubSeq(output, 1, Len(output) - 1) ELSE output

\* C24: for one upstream body the events emitted are the same for every way
\* of splitting it into reads: a line cut by a read boundary is held in the
\* buffer and processed exactly once when its newline arrives.
C24_SplitInvariant ==
    (encoder # "none" /\ controller # "cancelled") =>
        /\ C13_IsPrefix(C24_OfLines, C24_OneRead)
        /\ (upstreamText = <<>> => C24_OfLines = C24_OneRead)

C24_Witness ==
    /\ encoder = "messages"
    /\ Len(upstreamEvents) = 3
    /\ buffer = <<[part |-> 1, ev |-> upstreamEvents[3]]>>
    /\ upstreamEvents[3].finishReason = "STOP"
    /\ upstreamEvents[1].text = "Hello" /\ upstreamEvents[2].text = " world"
    /\ Len(output) = 4
    /\ controller = "readable"

\* C25: in the messages re-encoder message_start and content_block_start
\* are each emitted at most once, message_start first, and both precede
\* every content_block_delta, content_block_stop, message_delta and
\* message_stop.
C25_EnvelopeOpenedOnce ==
    encoder = "messages" =>
        /\ \A i \in 1..Len(output) :
              /\ output[i].type = "message_start" <=> i = 1
              /\ output[i].type = "content_block_start" <=> i = 2
        /\ Len(output) # 1

C25_Witness ==
    /\ encoder = "messages"
    /\ Len(upstreamEvents) = 3
    /\ \A i \in 1..3 : upstreamEvents[i].kind = "chunk"
    /\ upstreamEvents[1].finishReason = "STOP"
    /\ upstreamEvents[2].text = "Hello"
    /\ upstreamEvents[3].finishReason = "MAX_TOKENS"
    /\ upstreamText = <<>>
    /\ Len(output) = 9

C26_FinishFraming == {"content_block_stop", "message_delta", "message_stop"}

\* C26: when the upstream ends without any chunk carrying a finish signal
\* the output stream is closed normally, and the messages re-encoder emits
\* no content_block_stop, message_delta or message_stop.
C26_ClosedWithoutFinish ==
    (encoder # "none" /\ upstreamEnd = "done" /\ loop = "returned"
        /\ controller # "cancelled"
        /\ \A i \in 1..Len(upstreamEvents) : ~C16_IsFinishChunk(upstreamEvents[i])) =>
        /\ controller = "closed"
        /\ (encoder = "messages" =>
              \A i \in 1..Len(output) : output[i].type \notin C26_FinishFraming)

C26_Witness ==
    /\ encoder = "messages"
    /\ Len(upstreamEvents) = 2
    /\ upstreamEvents[1].text = "Hello" /\ upstreamEvents[2].text = " world"
    /\ loop = "returned" /\ controller = "closed"
    /\ Len(output) = 4

\* a chunk whose first candidate carries text in some part
C27_CarriesText(ev) == ev.kind = "chunk" /\ (ev.text # "" \/ ev.more # "")

C27_IsDelta(e) ==
    \/ e.type = "content_block_delta"
    \/ e.type = "chunk" /\ e.reason = ""

\* the delta text is the chunk's text
C27_Holds(text, ev) ==
    \/ ev.more = "" /\ text = ev.text
    \/ ev.text = "" /\ text = ev.more

\* C27: every chunk carrying non-empty text, in any of its content parts,
\* produces exactly one delta holding that chunk's text, in upstream order,
\* and a chunk carrying no text produces no delta.
C27_OneDeltaPerTextChunk ==
    (encoder # "none" /\ upstreamText = <<>> /\ controller # "cancelled") =>
        LET chunks == SelectSeq(upstreamEvents, C27_CarriesText)
            deltas == SelectSeq(output, C27_IsDelta)
        IN  /\ Len(deltas) = Len(chunks)
            /\ \A i \in 1..Len(deltas) : C27_Holds(deltas[i].text, chunks[i])

----------------------------------------------------------------------------
(* Further properties of model-mapping *)

\* C28: the override table is parsed from MODEL_MAPPING_JSON at most once,
\* on first use; a malformed blob yields an empty table without throwing,
\* so the lookup falls through to the built-in table.
C28_ParsedOnce ==
    /\ mappingEnv.kind # "unset" => parses <= 1
    /\ (mappingEnv.kind = "malformed" /\ mapped # NoMapped) =>
          /\ customMappings = EmptyTable
          /\ mapped.out = MappedName(EmptyTable, mapped.name)

----------------------------------------------------------------------------
(* Properties of the request translators *)

C30_IsSystem(msg) == msg.role = "system"
C30_IsTurn(msg) == msg.role # "system"

\* C30: the chat translator makes no turn of a system message and its text
\* becomes the system instruction; the other messages become one turn each,
\* in input order, with role model for assistant and user otherwise.  The
\* messages translator makes one turn of every message, model for assistant
\* and user otherwise, and its system field becomes the system instruction.
C30_RolesAndSystem ==
    translated.done =>
        LET turns == IF translator = "chat" THEN SelectSeq(request.messages, C30_IsTurn)
                     ELSE request.messages
        IN  /\ Len(translated.contents) = Len(turns)
            /\ \A i \in 1..Len(turns) :
                  translated.contents[i].role =
                      (IF turns[i].role = "assistant" THEN "model" ELSE "user")
            /\ translator = "chat" =>
                  \A i \in 1..Len(request.messages) :
                      C30_IsSystem(request.messages[i]) =>
                          /\ translated.systemInstruction.set
                          /\ translated.systemInstruction.text
                                = SystemText(request.messages[i].content)
            /\ (translator = "messages" /\ request.system \notin {Undefined, Str("")}) =>
                  translated.systemInstruction = Instruction(<<request.system.v>>)
            /\ (translator = "messages" /\ request.system = Undefined) =>
                  ~translated.systemInstruction.set

C31_IsInline(part) == part.kind = "inlineData"
C31_IsImage(block) == block.type \in {"image_url", "image"}

\* the inline-media parts the image blocks of a message are to yield
RECURSIVE C31_Expected(_)
C31_Expected(blocks) ==
    IF blocks = <<>> THEN <<>>
    ELSE (IF C31_IsImage(Head(blocks)) /\ Head(blocks).image.form = "inline"
          THEN <<InlineData(Str(IF Head(blocks).image.mime # ""
                                THEN Head(blocks).image.mime ELSE "image/jpeg"),
                            Str(ImageData))>>
          ELSE <<>>)
         \o C31_Expected(Tail(blocks))

\* C31: in both request translators an image block yields an inline-media
\* part exactly when the image is embedded as inline base64 data, with the
\* MIME type the embedding names, or image/jpeg when it names none; a
\* reference to a remotely hosted image yields no part.
C31_InlineImagesOnly ==
    translated.done =>
        LET turns == IF translator = "chat" THEN SelectSeq(request.messages, C30_IsTurn)
                     ELSE request.messages
        IN  /\ Len(translated.contents) = Len(turns)
            /\ \A i \in 1..Len(turns) :
                  SelectSeq(translated.contents[i].parts, C31_IsInline)
                      = C31_Expected(turns[i].content.blocks)

----------------------------------------------------------------------------
(* Properties of the credential pool manager under concurrent requests *)

\* this step holds a selection made by handler h's getToken call
C32_Selects(h) == selCount'[h] = selCount[h] + 1

C32_SelectStep ==
    /\ \A h \in Handlers :
          C32_Selects(h) =>
              /\ currentIndex' = currentIndex + 1
              /\ \A g \in Handlers : C32_Selects(g) => g = h
              /\ accounts'.kind = "array" =>
                    /\ selLen'[h] = Len(accounts'.items)
                    /\ selIndex'[h] = currentIndex % Len(accounts'.items)
    /\ (\A h \in Handlers : ~C32_Selects(h)) => currentIndex' = currentIndex

\* C32: the selection of pool[cursor mod length] and the cursor increment
\* are one step: every selection reads the current cursor and leaves it
\* advanced by one, no step holds two selections and no other step changes
\* the cursor, so no two selections read the same cursor value and k
\* selections advance the cursor by exactly k, under every interleaving.
C32_SelectAndAdvanceAtomic == [][C32_SelectStep]_vars

\* both handlers await a refresh; their selections read cursors 0 and 1
C32_Witness ==
    /\ pc["chat"] \in RefreshPcs /\ pc["messages"] \in RefreshPcs
    /\ selCount["chat"] = 1 /\ selCount["messages"] = 1
    /\ selLen["chat"] = 2 /\ selLen["messages"] = 2
    /\ {selIndex["chat"], selIndex["messages"]} = {0, 1}
    /\ currentIndex = 2

\* account is an element of the pool
C33_InPool(pool, account) ==
    /\ pool.kind = "array"
    /\ \E i \in 1..Len(pool.items) : pool.items[i] = account

\* this step makes handler h's getToken call return an account and a token
C33_Returns(h) == result'[h].kind = "token" /\ result[h].kind # "token"

\* the token is what a successful refresh of the selected account gave
C33_FromRefresh(h) ==
    /\ pc[h] = "refresh_json"
    /\ result'[h].account.src = acct[h].src
    /\ result'[h].token \in NewTokens
    /\ result'[h].account.access_token = result'[h].token
    /\ result'[h].account.expiry_timestamp = clock + result'[h].account.expires_in

\* the token is the stored one of an account selected outside its window
C33_FromStore(h) ==
    /\ pc[h] \in {"idle", "refresh_null"}
    /\ selCount'[h] = selCount[h] + 1
    /\ result'[h].account = acct'[h]
    /\ result'[h].token = result'[h].account.access_token
    /\ clock < result'[h].account.expiry_timestamp - RefreshWindow

\* The account returned is the object selected from the pool: an element of
\* the pool, unless a reload reassigned the pool while this call awaited the
\* refresh of that object.
C33_ReturnStep(h) ==
    C33_Returns(h) =>
        /\ C33_InPool(accounts', result'[h].account) \/ detached[h]
        /\ C33_FromRefresh(h) \/ C33_FromStore(h)

C34_FreshPool(pool) ==
    /\ pool.kind = "array"
    /\ \A i \in 1..Len(pool.items) :
          /\ pool.items[i].access_token = CfgToken
          /\ pool.items[i].expires_in = CfgExpiresIn
          /\ pool.items[i].expiry_timestamp \in {ExpirySoon, ExpiryLate}

\* this step is a run of getToken for h in which loadAccounts succeeded
C34_Reloads(h) == C11_GetTokenEntered(h) /\ lastLoad' = "ok"

\* this step completes a refresh h started before a reload reassigned the pool
C34_LateRefresh(h) == pc[h] = "refresh_json" /\ pc'[h] = "returned" /\ detached[h]

C34_Step ==
    \A h \in Handlers :
        /\ C34_Reloads(h) => C34_FreshPool(accounts')
        /\ C34_LateRefresh(h) =>
              /\ accounts' = accounts
              /\ acct'[h].src = acct[h].src
              /\ acct'[h].access_token \in NewTokens
              /\ acct'[h].expiry_timestamp = clock + acct'[h].expires_in

\* C34: a successful reload replaces every pool account by a freshly parsed
\* record, so no token written by an earlier refresh remains in the pool,
\* and a refresh that started before a reload and completes after it
\* changes only the detached pre-reload account object, never an account of
\* the current pool.
C34_ReloadReplacesPool == [][C34_Step]_vars

\* A handler holds an account object a refresh wrote to while the pool holds
\* the same account as freshly parsed: the reload came after the refresh and
\* replaced the record, or before its completion and the refresh wrote to
\* the pre-reload object only.
C34_Witness ==
    /\ pc["chat"] = "returned"
    /\ result["chat"].kind = "token"
    /\ result["chat"].token \in NewTokens
    /\ lastLoad = "ok"
    /\ pc["messages"] \in RefreshPcs
    /\ C34_FreshPool(accounts)
    /\ \E i \in 1..Len(accounts.items) : accounts.items[i].src = result["chat"].account.src
====
